---- MODULE Spec2Model ----
(***************************************************************************)
(* Model of tslearn/preprocessing.py: TimeSeriesResampler,                 *)
(* TimeSeriesScalerMinMax and TimeSeriesScalerMeanVariance.                *)
(*                                                                         *)
(* One estimator instance (self) is constructed in Init and then receives  *)
(* fit and transform calls.  Array elements are binary floating-point      *)
(* numbers with PrecBits significant bits, rounded to nearest (ties to     *)
(* even) after every arithmetic operation, as numpy's float64 element-wise *)
(* operations are; float64 itself has 53 significant bits.                 *)
(***************************************************************************)
EXTENDS Integers, Sequences, FiniteSets, TLC

----------------------------------------------------------------------------
(* Floating-point numbers.  A finite number is an integer count v of units *)
(* of 2^-FracBits that has at most PrecBits significant bits.              *)

PrecBits == 4
FracBits == 10

Pow2(n) == 2 ^ n
Abs(x) == IF x < 0 THEN -x ELSE x
Sign(x) == IF x < 0 THEN -1 ELSE 1

NaN == [k |-> "nan", v |-> 0]
Inf(s) == [k |-> "inf", v |-> s]
Fin(n) == [k |-> "fin", v |-> n]
Num(i) == Fin(i * Pow2(FracBits))
Quarters(q) == Fin(q * Pow2(FracBits - 2))

isnan(a) == a.k = "nan"
isfinite(a) == a.k = "fin"

\* The binary exponent of the quotient a / den: the least e >= 0 such that
\* a / den < 2^(PrecBits + e).
RECURSIVE Expo(_, _, _)
Expo(a, den, e) == IF a < Pow2(PrecBits + e) * den THEN e ELSE Expo(a, den, e + 1)

\* a / den rounded to the nearest integer, ties to even (a >= 0, den > 0).
RoundHalfEven(a, den) ==
    LET q == a \div den
        r == a % den
    IN  IF 2 * r < den THEN q
        ELSE IF 2 * r > den THEN q + 1
        ELSE IF q % 2 = 0 THEN q ELSE q + 1

\* num / den (in units) rounded to PrecBits significant bits.
Rnd(num, den) ==
    LET a == Abs(num)
        e == Expo(a, den, 0)
    IN  Sign(num) * RoundHalfEven(a, den * Pow2(e)) * Pow2(e)

FAdd(a, b) ==
    IF isnan(a) \/ isnan(b) THEN NaN
    ELSE IF a.k = "inf" /\ b.k = "inf" THEN (IF a.v = b.v THEN a ELSE NaN)
    ELSE IF a.k = "inf" THEN a
    ELSE IF b.k = "inf" THEN b
    ELSE Fin(Rnd(a.v + b.v, 1))

FNeg(a) == IF a.k = "nan" THEN NaN ELSE [k |-> a.k, v |-> -a.v]

FSub(a, b) == FAdd(a, FNeg(b))

FMul(a, b) ==
    IF isnan(a) \/ isnan(b) THEN NaN
    ELSE IF a.k = "inf" \/ b.k = "inf"
         THEN (IF a.v = 0 \/ b.v = 0 THEN NaN ELSE Inf(Sign(a.v) * Sign(b.v)))
    ELSE Fin(Rnd(a.v * b.v, Pow2(FracBits)))

\* IEEE division: x / 0 is NaN for x = 0 and an infinity otherwise; numpy
\* reports it with a RuntimeWarning, not with an exception.
FDiv(a, b) ==
    IF isnan(a) \/ isnan(b) THEN NaN
    ELSE IF a.k = "inf" THEN (IF b.k = "inf" THEN NaN ELSE Inf(a.v * Sign(b.v)))
    ELSE IF b.k = "inf" THEN Fin(0)
    ELSE IF b.v = 0 THEN (IF a.v = 0 THEN NaN ELSE Inf(Sign(a.v)))
    ELSE Fin(Sign(b.v) * Rnd(a.v * Pow2(FracBits), Abs(b.v)))

\* Exponent of a square root: the least e >= 0 with n < 4^(PrecBits + e).
RECURSIVE SqrtExpo(_, _)
SqrtExpo(n, e) == IF n < Pow2(2 * (PrecBits + e)) THEN e ELSE SqrtExpo(n, e + 1)

ISqrt(n) == CHOOSE r \in 0..(Pow2(PrecBits) - 1) : r * r <= n /\ n < (r + 1) * (r + 1)

\* Correctly rounded square root of a finite a >= 0.
FSqrt(a) ==
    IF isnan(a) THEN NaN
    ELSE IF a.k = "inf" THEN (IF a.v > 0 THEN a ELSE NaN)
    ELSE IF a.v < 0 THEN NaN
    ELSE LET n == a.v * Pow2(FracBits)
             e == SqrtExpo(n, 0)
             m == ISqrt(n \div Pow2(2 * e))
             mid == (2 * m + 1) * (2 * m + 1) * Pow2(2 * e)
             up == 4 * n > mid \/ (4 * n = mid /\ m % 2 = 1)
         IN  Fin((IF up THEN m + 1 ELSE m) * Pow2(e))

\* Numeric order; any comparison with NaN is false.
FLess(a, b) ==
    /\ ~isnan(a) /\ ~isnan(b)
    /\ IF a.k = "inf" THEN a.v < 0 /\ ~(b.k = "inf" /\ b.v < 0)
       ELSE IF b.k = "inf" THEN b.v > 0
       ELSE a.v < b.v
FLeq(a, b) == ~isnan(a) /\ ~isnan(b) /\ ~FLess(b, a)
FGeq(a, b) == FLeq(b, a)

----------------------------------------------------------------------------
(* Datasets.  A dataset is a sequence of series, a series a sequence of    *)
(* steps, a step a sequence of d numbers; in the canonical 3-D layout all  *)
(* series have the same number of steps.                                   *)

Max(S) == CHOOSE m \in S : \A n \in S : n <= m

shape(A) == <<Len(A), Len(A[1]), Len(A[1][1])>>

\* Pads every series with all-NaN steps up to the longest one.
to_time_series_dataset(D) ==
    LET max_sz == Max({Len(D[i]) : i \in DOMAIN D})
        d == Len(D[1][1])
    IN  [i \in DOMAIN D |->
            [t \in 1..max_sz |->
                IF t <= Len(D[i]) THEN D[i][t] ELSE [di \in 1..d |-> NaN]]]

\* Valid length of one series: scan from the end for the first step that is
\* not padding.
RECURSIVE ts_size_from(_, _)
ts_size_from(ts, sz) ==
    IF sz > 0 /\ (\A di \in DOMAIN ts[sz] : isnan(ts[sz][di]))
    THEN ts_size_from(ts, sz - 1)
    ELSE sz

ts_size(ts) == ts_size_from(ts, Len(ts))

check_equal_size(A) == \A i \in DOMAIN A : ts_size(A[i]) = ts_size(A[1])

\* Shape Validator: the input must have the feature count recorded at fit.
check_dims(A, X_fit_dims) == shape(A)[3] = X_fit_dims[3]

\* A[i, :sz, di]
Column(A, i, sz, di) == [t \in 1..sz |-> A[i][t][di]]

----------------------------------------------------------------------------
(* numpy reductions over the time axis of one series and dimension.        *)

\* numpy.add.reduce: element after element, each partial sum rounded.
RECURSIVE SumTo(_, _)
SumTo(col, n) == IF n = 0 THEN Fin(0) ELSE FAdd(SumTo(col, n - 1), col[n])

sum(col) == SumTo(col, Len(col))

\* _replace_nan(arr, 0)
replace_nan(col) == [t \in DOMAIN col |-> IF isnan(col[t]) THEN Fin(0) ELSE col[t]]

count(col) == Cardinality({t \in DOMAIN col : ~isnan(col[t])})

Valid(col) == {col[t] : t \in {u \in DOMAIN col : ~isnan(col[u])}}

\* numpy.min: a NaN in the column makes the minimum NaN.
amin(col) ==
    IF \E t \in DOMAIN col : isnan(col[t]) THEN NaN
    ELSE CHOOSE m \in Valid(col) : \A x \in Valid(col) : FLeq(m, x)

nanmin(col) ==
    IF Valid(col) = {} THEN NaN
    ELSE CHOOSE m \in Valid(col) : \A x \in Valid(col) : FLeq(m, x)

nanmax(col) ==
    IF Valid(col) = {} THEN NaN
    ELSE CHOOSE m \in Valid(col) : \A x \in Valid(col) : FLeq(x, m)

\* nanmean: sum with the NaNs replaced by 0, divided by the count of non-NaNs.
nanmean(col) == FDiv(sum(replace_nan(col)), Num(count(col)))

\* nanstd: population standard deviation of the non-NaN elements.
nanstd(col) ==
    LET avg == nanmean(col)
        dev == [t \in DOMAIN col |-> IF isnan(col[t]) THEN Fin(0) ELSE FSub(col[t], avg)]
        sqr == [t \in DOMAIN col |-> FMul(dev[t], dev[t])]
    IN  FSqrt(FDiv(sum(sqr), Num(count(col))))

----------------------------------------------------------------------------
(* TimeSeriesResampler                                                     *)

\* numpy.linspace(0, 1, n): the positions i / (n - 1), as pairs <<num, den>>;
\* for n = 1 the single position 0.
linspace(n) == [i \in 1..n |-> IF n = 1 THEN <<0, 1>> ELSE <<i - 1, n - 1>>]

RatLeq(p, q) == p[1] * q[2] <= q[1] * p[2]

\* interp1d(x, y, kind="slinear") needs at least two knots.
interp1d_ok(x, y) == Len(x) >= 2

\* f(q) is defined for x[1] <= q <= x[Len(x)] only.
in_bounds(x, q) == RatLeq(x[1], q) /\ RatLeq(q, x[Len(x)])

\* f(q) for the piecewise-linear interpolant f through the knots (x[j], y[j]):
\* the interpolant's value at q, rounded once to the output array's float type.
interp1d(x, y, q) ==
    LET js == {j \in 1..(Len(x) - 1) : RatLeq(x[j], q)}
        j == Max(js)
        dn == x[j + 1][1] * x[j][2] - x[j][1] * x[j + 1][2]
        dd == x[j][2] * x[j + 1][2]
        wn == (q[1] * x[j][2] - x[j][1] * q[2]) * dd
        wd == q[2] * x[j][2] * dn
    IN  IF isnan(y[j]) \/ isnan(y[j + 1]) THEN NaN
        ELSE Fin(Rnd(y[j].v * (wd - wn) + y[j + 1].v * wn, wd))

\* _transform_unit_sz: the NaN-ignoring mean over the steps, per dimension.
transform_unit_sz(A, sz_) ==
    [i \in DOMAIN A |->
        [k \in 1..sz_ |->
            [di \in DOMAIN A[i][1] |-> nanmean(Column(A, i, Len(A[i]), di))]]]

\* The padded length for every series.
resample_sz_padded(A, i) == shape(A)[2]

\* The valid length the loop of transform uses for series i.
resample_sz(A, i) == IF check_equal_size(A) THEN shape(A)[2] ELSE ts_size(A[i])

\* The loop of transform raises as soon as one interp1d call does.
resample_raises(A, sz_) ==
    \E i \in DOMAIN A :
        LET sz == resample_sz(A, i)
            x == linspace(sz)
        IN  \/ ~interp1d_ok(x, Column(A, i, sz, 1))
            \/ \E k \in 1..sz_ : ~in_bounds(x, linspace(sz_)[k])

resample(A, sz_) ==
    [i \in DOMAIN A |->
        LET sz == resample_sz(A, i)
            xnew == linspace(sz_)
        IN  [k \in 1..sz_ |->
                [di \in DOMAIN A[i][1] |->
                    interp1d(linspace(sz), Column(A, i, sz, di), xnew[k])]]]

----------------------------------------------------------------------------
(* TimeSeriesScalerMinMax and TimeSeriesScalerMeanVariance, element-wise   *)

\* Python's None is the empty tuple, a supplied value v the tuple <<v>>.
None == <<>>
Some(v) == <<v>>

\* The overlay of max laid over value_range instead of over the overlay of min.
effective_range_max_drops_min(obj) ==
    LET r1 == IF obj.min # None THEN <<obj.min[1], obj.value_range[2]>>
              ELSE obj.value_range
    IN  IF obj.max # None THEN <<obj.value_range[1], obj.max[1]>> ELSE r1

\* Lines 169-182: value_range with each supplied legacy end laid over it.
effective_range(obj) ==
    LET r1 == IF obj.min # None THEN <<obj.min[1], obj.value_range[2]>>
              ELSE obj.value_range
    IN  IF obj.max # None THEN <<r1[1], obj.max[1]>> ELSE r1

\* Lines 170-181: one warnings.warn call per supplied legacy parameter.
deprecation_warnings(obj) ==
    (IF obj.min # None THEN <<"min">> ELSE <<>>)
        \o (IF obj.max # None THEN <<"max">> ELSE <<>>)

\* Lines 191-195 with a zero span replaced by 1.
minmax_column_guarded(col, value_range) ==
    LET min_t == nanmin(col)
        max_t == nanmax(col)
        range_t == IF FSub(max_t, min_t) = Fin(0) THEN Num(1) ELSE FSub(max_t, min_t)
    IN  [t \in DOMAIN col |->
            LET nomin == FMul(FSub(col[t], min_t),
                              FSub(value_range[2], value_range[1]))
            IN  FAdd(FDiv(nomin, range_t), value_range[1])]

\* Lines 191-195 for one series and dimension.
minmax_column(col, value_range) ==
    LET min_t == nanmin(col)
        max_t == nanmax(col)
        range_t == FSub(max_t, min_t)
    IN  [t \in DOMAIN col |->
            LET nomin == FMul(FSub(col[t], min_t),
                              FSub(value_range[2], value_range[1]))
            IN  FAdd(FDiv(nomin, range_t), value_range[1])]

minmax_scale(A, value_range) ==
    [i \in DOMAIN A |->
        [t \in DOMAIN A[i] |->
            [di \in DOMAIN A[i][t] |->
                minmax_column(Column(A, i, Len(A[i]), di), value_range)[t]]]]

\* Line 272: std_t[std_t == 0.] = 1.
guard_std(std_t) == IF std_t = Fin(0) THEN Num(1) ELSE std_t

\* Lines 270-274 for one series and dimension.
meanvar_column(col, mu, std) ==
    LET mean_t == nanmean(col)
        std_t == guard_std(nanstd(col))
    IN  [t \in DOMAIN col |->
            FAdd(FDiv(FMul(FSub(col[t], mean_t), std), std_t), mu)]

meanvar_scale(A, mu, std) ==
    [i \in DOMAIN A |->
        [t \in DOMAIN A[i] |->
            [di \in DOMAIN A[i][t] |->
                meanvar_column(Column(A, i, Len(A[i]), di), mu, std)[t]]]]

----------------------------------------------------------------------------
(* Inputs                                                                  *)

MaxLen == 3
MaxSz == 5

Arr(n, sz, d, V) == [1..n -> [1..sz -> [1..d -> V]]]

Ragged1(d, V) == UNION {[1..1 -> [1..len -> [1..d -> V]]] : len \in 1..MaxLen}

Ragged2(V) ==
    UNION {{<<a, b>> : a \in [1..la -> [1..1 -> V]], b \in [1..lb -> [1..1 -> V]]} :
               <<la, lb>> \in (1..MaxLen) \X (1..MaxLen)}

\* Resampler inputs: ragged lists of series without missing values.
ResamplerInputs ==
    Ragged1(1, {Num(0), Num(3), Num(6)})
        \cup Ragged1(2, {Num(0), Num(3)})
        \cup Ragged2({Num(0), Num(3)})

\* Scaler inputs: 3-D arrays, possibly with missing values, as
\* check_array(X, allow_nd=True, force_all_finite=False) accepts them.
ScalerInputs ==
    Arr(1, MaxLen, 1, {NaN, Num(0), Num(3), Quarters(14), Num(6)})
        \cup Arr(2, 2, 1, {NaN, Num(0), Num(3)})
        \cup Arr(1, 2, 2, {NaN, Num(0), Num(3)})
        \cup Arr(1, 1, 1, {NaN, Num(3)})

FitShapes == {<<1, 2, 1>>, <<1, 2, 2>>}

zeros(s) == [i \in 1..s[1] |-> [t \in 1..s[2] |-> [di \in 1..s[3] |-> Fin(0)]]]

ValueRanges ==
    {<<Num(0), Num(1)>>, <<Num(1), Num(2)>>, <<Num(1), Num(1)>>,
     <<Num(2), Num(1)>>, <<Num(0), Quarters(7)>>}

LegacyMins == {None, Some(Num(0)), Some(Num(2))}
LegacyMaxs == {None, Some(Num(1))}

Mus == {Num(0), Num(1)}
Stds == {Num(1), Num(2)}

----------------------------------------------------------------------------
(* The estimator classes                                                   *)

NoData == <<>>

Returned(data) == [kind |-> "data", data |-> data, msg |-> <<>>]
ReturnedSelf == [kind |-> "self", data |-> NoData, msg |-> <<>>]
Raised(kind, msg) == [kind |-> kind, data |-> NoData, msg |-> msg]

\* TimeSeriesResampler.__init__
NewResampler(sz) == [cls |-> "Resampler", sz_ |-> sz]

\* TimeSeriesScalerMinMax.__init__; it does not set _X_fit_dims.
NewMinMax(value_range, min, max) ==
    [cls |-> "MinMax", value_range |-> value_range, min |-> min, max |-> max,
     X_fit_dims |-> None]

\* TimeSeriesScalerMeanVariance.__init__; it does not set _X_fit_dims.
NewMeanVariance(mu, std) ==
    [cls |-> "MeanVariance", mu |-> mu, std |-> std, X_fit_dims |-> None]

\* TimeSeriesResampler.transform: what the call returns or raises.
TimeSeriesResampler_transform(obj, A) ==
    LET X_ == to_time_series_dataset(A)
    IN  IF obj.sz_ = 1 THEN Returned(transform_unit_sz(X_, obj.sz_))
        ELSE IF resample_raises(X_, obj.sz_) THEN Raised("InterpError", <<>>)
        ELSE Returned(resample(X_, obj.sz_))

\* A fit that records the shape of the first dataset only.
fit_keep_first(obj, A) ==
    IF obj.X_fit_dims = None THEN [obj EXCEPT !.X_fit_dims = shape(A)] ELSE obj

\* fit of both scalers: the attributes after the call.
fit(obj, A) == [obj EXCEPT !.X_fit_dims = shape(A)]

\* The interval validated after the input instead of before it.
MinMax_transform_validate_last(obj, A) ==
    LET value_range == effective_range(obj)
    IN  IF obj.X_fit_dims = None THEN Raised("AttributeError", <<>>)
        ELSE IF ~check_dims(A, obj.X_fit_dims) THEN Raised("ShapeMismatch", <<>>)
        ELSE IF FGeq(value_range[1], value_range[2])
             THEN Raised("ValueError", value_range)
        ELSE Returned(minmax_scale(to_time_series_dataset(A), value_range))

\* TimeSeriesScalerMinMax.transform: what the call returns or raises.
TimeSeriesScalerMinMax_transform(obj, A) ==
    LET value_range == effective_range(obj)
    IN  IF FGeq(value_range[1], value_range[2])
             THEN Raised("ValueError", value_range)
        ELSE IF obj.X_fit_dims = None THEN Raised("AttributeError", <<>>)
        ELSE IF ~check_dims(A, obj.X_fit_dims) THEN Raised("ShapeMismatch", <<>>)
        ELSE Returned(minmax_scale(to_time_series_dataset(A), value_range))

\* A transform that validates the shape only when one was recorded.
MeanVariance_transform_unfitted_ok(obj, A) ==
    IF obj.X_fit_dims # None /\ ~check_dims(A, obj.X_fit_dims)
    THEN Raised("ShapeMismatch", <<>>)
    ELSE Returned(meanvar_scale(to_time_series_dataset(A), obj.mu, obj.std))

\* TimeSeriesScalerMeanVariance.transform: what the call returns or raises.
TimeSeriesScalerMeanVariance_transform(obj, A) ==
    IF obj.X_fit_dims = None THEN Raised("AttributeError", <<>>)
    ELSE IF ~check_dims(A, obj.X_fit_dims) THEN Raised("ShapeMismatch", <<>>)
    ELSE Returned(meanvar_scale(to_time_series_dataset(A), obj.mu, obj.std))

----------------------------------------------------------------------------
(* One estimator instance and the calls made on it                         *)

\* self:     the estimator's attributes
\* X:        the dataset the caller transforms
\* ctor:     the attributes as __init__ set them
\* fitShape: shape of the dataset given to the most recent scaler fit
\* op:       the most recent call: "new", "fit" or "transform"
\* ret:      what the most recent call returned or raised
\* warns:    the warnings the most recent call emitted
VARIABLES self, X, ctor, fitShape, op, ret, warns

vars == <<self, X, ctor, fitShape, op, ret, warns>>

Init ==
    /\ \/ /\ \E sz \in 1..MaxSz : self = NewResampler(sz)
          /\ X \in ResamplerInputs
       \/ /\ \E vr \in ValueRanges, mn \in LegacyMins, mx \in LegacyMaxs :
                 self = NewMinMax(vr, mn, mx)
          /\ X \in ScalerInputs
       \/ /\ \E mu \in Mus, std \in Stds : self = NewMeanVariance(mu, std)
          /\ X \in ScalerInputs
    /\ ctor = self
    /\ fitShape = None
    /\ op = "new"
    /\ ret = ReturnedSelf
    /\ warns = <<>>

\* The datasets a scaler's fit is called with: the caller's or another one.
FitInputs == {X} \cup {zeros(s) : s \in FitShapes}

Resampler_fit ==
    /\ self.cls = "Resampler"
    /\ op' = "fit"
    /\ ret' = ReturnedSelf
    /\ warns' = <<>>
    /\ UNCHANGED <<self, X, ctor, fitShape>>

Resampler_transform ==
    /\ self.cls = "Resampler"
    /\ op' = "transform"
    /\ ret' = TimeSeriesResampler_transform(self, X)
    /\ warns' = <<>>
    /\ UNCHANGED <<self, X, ctor, fitShape>>

MinMax_fit ==
    /\ self.cls = "MinMax"
    /\ \E Xf \in FitInputs :
          /\ self' = fit(self, Xf)
          /\ fitShape' = shape(Xf)
    /\ op' = "fit"
    /\ ret' = ReturnedSelf
    /\ warns' = <<>>
    /\ UNCHANGED <<X, ctor>>

MinMax_transform ==
    /\ self.cls = "MinMax"
    /\ op' = "transform"
    /\ warns' = deprecation_warnings(self)
    /\ ret' = TimeSeriesScalerMinMax_transform(self, X)
    /\ UNCHANGED <<self, X, ctor, fitShape>>

MeanVariance_fit ==
    /\ self.cls = "MeanVariance"
    /\ \E Xf \in FitInputs :
          /\ self' = fit(self, Xf)
          /\ fitShape' = shape(Xf)
    /\ op' = "fit"
    /\ ret' = ReturnedSelf
    /\ warns' = <<>>
    /\ UNCHANGED <<X, ctor>>

MeanVariance_transform ==
    /\ self.cls = "MeanVariance"
    /\ op' = "transform"
    /\ ret' = TimeSeriesScalerMeanVariance_transform(self, X)
    /\ warns' = <<>>
    /\ UNCHANGED <<self, X, ctor, fitShape>>

Next ==
    \/ Resampler_fit
    \/ Resampler_transform
    \/ MinMax_fit
    \/ MinMax_transform
    \/ MeanVariance_fit
    \/ MeanVariance_transform

Spec == Init /\ [][Next]_vars

----------------------------------------------------------------------------
(* Properties                                                              *)

ResamplerReturned ==
    self.cls = "Resampler" /\ op = "transform" /\ ret.kind = "data"

Between(a, v, b) == (FLeq(a, v) /\ FLeq(v, b)) \/ (FLeq(b, v) /\ FLeq(v, a))

\* C1: for every series of valid length L >= 1 and every sz >= 2, transform
\* of the resampler returns an output whose first step is the series' first
\* valid step and whose last step is the series' last valid step, in every
\* dimension.
C1_EndpointsForEveryLength ==
    (self.cls = "Resampler" /\ op = "transform" /\ self.sz_ >= 2) =>
        /\ ret.kind = "data"
        /\ \A i \in DOMAIN X : \A di \in DOMAIN X[i][1] :
              /\ ret.data[i][1][di] = X[i][1][di]
              /\ ret.data[i][self.sz_][di] = X[i][Len(X[i])][di]

lo == IF ctor.min # None THEN ctor.min[1] ELSE ctor.value_range[1]
hi == IF ctor.max # None THEN ctor.max[1] ELSE ctor.value_range[2]

\* C3: with an interval lo >= hi, transform of the min-max scaler raises the
\* ValueError that quotes the pair, whatever the input's shape and whether
\* or not fit was called, and computes nothing; the constructor and fit
\* succeed with such an interval.
C3_InvalidConfigurationFirst ==
    (self.cls = "MinMax" /\ FGeq(lo, hi)) =>
        /\ op = "transform" => ret = Raised("ValueError", <<lo, hi>>)
        /\ op \in {"new", "fit"} => ret = ReturnedSelf

\* The error is raised after a fit on a dataset whose feature count the
\* transformed dataset does not have.
C3_Witness ==
    /\ self.cls = "MinMax" /\ op = "transform" /\ FGeq(lo, hi)
    /\ ret.kind = "ValueError"
    /\ self.X_fit_dims # None
    /\ ~check_dims(X, self.X_fit_dims)

MinMaxReturned == self.cls = "MinMax" /\ op = "transform" /\ ret.kind = "data"

MeanVarianceReturned ==
    self.cls = "MeanVariance" /\ op = "transform" /\ ret.kind = "data"

\* The values of series i in dimension di, over time.
XColumn(i, di) == Column(X, i, Len(X[i]), di)
OutColumn(i, di) == Column(ret.data, i, Len(X[i]), di)

Columns == {<<i, di>> : i \in DOMAIN X, di \in DOMAIN X[1][1]}

Distinct(col) == Cardinality(Valid(col))

\* C4: in a series and dimension with at least two distinct valid values the
\* min-max scaler outputs exactly lo where the series has its minimum,
\* exactly hi where it has its maximum, and a value within [lo, hi] at every
\* other valid position.
C4_ExactBounds ==
    MinMaxReturned =>
        \A c \in Columns :
            LET col == XColumn(c[1], c[2])
                out == OutColumn(c[1], c[2])
            IN  Distinct(col) >= 2 =>
                    \A t \in DOMAIN col :
                        /\ col[t] = nanmin(col) => out[t] = lo
                        /\ col[t] = nanmax(col) => out[t] = hi
                        /\ ~isnan(col[t]) => FLeq(lo, out[t]) /\ FLeq(out[t], hi)

\* The series with its missing steps removed, and the place a valid step of
\* the series takes in it.
Compress(col) == SelectSeq(col, LAMBDA v : ~isnan(v))
Rank(col, t) == Cardinality({u \in 1..t : ~isnan(col[u])})

\* C5: both scalers put a missing value where the input has one and a
\* number at every valid position of a series with two distinct valid
\* values, and the numbers are those of scaling the series with its missing
\* steps removed.
C5_MissingValues ==
    /\ MinMaxReturned =>
          \A c \in Columns :
              LET col == XColumn(c[1], c[2])
                  out == OutColumn(c[1], c[2])
              IN  \A t \in DOMAIN col :
                      /\ isnan(col[t]) => isnan(out[t])
                      /\ (~isnan(col[t]) /\ Distinct(col) >= 2) => ~isnan(out[t])
                      /\ ~isnan(col[t]) =>
                            out[t] = minmax_column(Compress(col), <<lo, hi>>)[Rank(col, t)]
    /\ MeanVarianceReturned =>
          \A c \in Columns :
              LET col == XColumn(c[1], c[2])
                  out == OutColumn(c[1], c[2])
              IN  \A t \in DOMAIN col :
                      /\ isnan(col[t]) => isnan(out[t])
                      /\ (~isnan(col[t]) /\ Distinct(col) >= 2) => ~isnan(out[t])
                      /\ ~isnan(col[t]) =>
                            out[t] = meanvar_column(Compress(col), ctor.mu, ctor.std)
                                         [Rank(col, t)]

\* A series with a missing step between two distinct valid ones was scaled.
C5_Witness ==
    /\ MinMaxReturned \/ MeanVarianceReturned
    /\ \E c \in Columns :
          LET col == XColumn(c[1], c[2])
          IN  /\ Len(col) = 3 /\ isnan(col[2])
              /\ ~isnan(col[1]) /\ ~isnan(col[3]) /\ col[1] # col[3]
              /\ ~isnan(OutColumn(c[1], c[2])[3])

\* C6: the mean-variance scaler maps every valid position of a series and
\* dimension whose valid values are all equal to exactly mu.
C6_ConstantToMu ==
    MeanVarianceReturned =>
        \A c \in Columns :
            LET col == XColumn(c[1], c[2])
            IN  Distinct(col) = 1 =>
                    \A t \in DOMAIN col :
                        ~isnan(col[t]) => OutColumn(c[1], c[2])[t] = ctor.mu

\* C7: the min-max scaler divides by a zero span without a guard: a series
\* and dimension whose valid values are all equal gets no finite output and
\* the call raises nothing, while the series and dimensions with a non-zero
\* span get numbers at their valid positions.
C7_ZeroSpanUnguarded ==
    (self.cls = "MinMax" /\ op = "transform" /\ FLess(lo, hi)
        /\ self.X_fit_dims # None /\ check_dims(X, self.X_fit_dims)) =>
        /\ ret.kind = "data"
        /\ \A c \in Columns :
              LET col == XColumn(c[1], c[2])
                  out == OutColumn(c[1], c[2])
              IN  \A t \in DOMAIN col :
                      /\ Distinct(col) <= 1 => ~isfinite(out[t])
                      /\ (Distinct(col) >= 2 /\ ~isnan(col[t])) => isfinite(out[t])

\* A constant series and a series with a span were scaled in one call.
C7_Witness ==
    /\ MinMaxReturned
    /\ \E c1 \in Columns, c2 \in Columns :
          /\ Distinct(XColumn(c1[1], c1[2])) = 1
          /\ count(XColumn(c1[1], c1[2])) >= 2
          /\ Distinct(XColumn(c2[1], c2[2])) = 2
          /\ \E t \in 1..Len(X[1]) : isfinite(OutColumn(c2[1], c2[2])[t])

\* The number of legacy parameters the constructor was given.
Supplied == (IF ctor.min # None THEN 1 ELSE 0) + (IF ctor.max # None THEN 1 ELSE 0)

\* C8: transform of the min-max scaler validates and scales with value_range
\* in which each end is replaced by the legacy parameter of that end when it
\* was given; it warns once per given legacy parameter and not otherwise,
\* and a warning does not end the call.
C8_LegacyOverlay ==
    (self.cls = "MinMax" /\ op = "transform") =>
        /\ Len(warns) = Supplied
        /\ (ctor.min # None) = (\E w \in DOMAIN warns : warns[w] = "min")
        /\ (ctor.max # None) = (\E w \in DOMAIN warns : warns[w] = "max")
        /\ (ret.kind = "ValueError") = FGeq(lo, hi)
        /\ ret.kind = "ValueError" => ret.msg = <<lo, hi>>
        /\ ret.kind = "data" => ret.data = minmax_scale(X, <<lo, hi>>)

\* Both legacy parameters were given, differ from value_range, and the call
\* returned a dataset with a value at the lower end they ask for.
C8_Witness ==
    /\ MinMaxReturned
    /\ ctor.min # None /\ ctor.max # None
    /\ ctor.min[1] # ctor.value_range[1] /\ ctor.max[1] # ctor.value_range[2]
    /\ Len(warns) = 2
    /\ \E c \in Columns : \E t \in 1..Len(X[1]) : OutColumn(c[1], c[2])[t] = lo

IsScaler == self.cls \in {"MinMax", "MeanVariance"}

====
